---- MODULE Spec2Model ----
(***************************************************************************)
(* A model of jsondb's Database (src/jsondb/model.py): the in-memory       *)
(* document (vocabulary, flags, record list), its operations, and the      *)
(* scoped open()/save() session on the backing file, with the backup that  *)
(* open() writes and rotates.  The client holds up to two Database         *)
(* objects; the variables of the document are those of the one it is       *)
(* calling, and `peer` keeps the other.                                    *)
(*                                                                         *)
(* Python values are records [kind, v]; kind is the Python type.  A stored *)
(* entry is the tuple (data, tags, attrs) of DATA_ENTRY, written here as a *)
(* record [data, tags, attrs]: data a Python value, tags a set of Python   *)
(* values, attrs a function from keys to values, both Python values.       *)
(*                                                                         *)
(* Every operation records what it was called with and how it ended in     *)
(* `last`, and the vocabulary, record list, backup directory and backing    *)
(* file it started from in `old`.                                          *)
(* Exceptions carry Python's names: TypeError (the spec's TypeMismatch),   *)
(* ValueError (InvalidTag, NotFound), IndexError (IndexNotFound).          *)
(***************************************************************************)
EXTENDS Integers, Sequences, FiniteSets, TLC

VARIABLES
    tags,             \* Database._tags: the vocabulary
    enforce_tags,     \* Database._enforce_tags
    backups_enabled,  \* Database._backups_enabled
    data,             \* Database._data: the record list
    file,             \* the content of the backing file at Database.path
    pc,               \* "handle": constructed, no session; "body": inside
                      \* `with Database.open(path)`; "closed": session left
    exit_saves,       \* saves made by open()'s finally in the latest session
    at_exit,          \* the document as it was when the latest session ended
    stem,             \* Path.stem of Database.path: the database's name
    backup_dir,       \* the directory .jsondb_backups_<stem>: the content of
                      \* each file in it, by file name
    handle,           \* which of the client's two Database objects the
                      \* variables above are the state of: 1 or 2
    peer,             \* the state of the client's other Database object
    last_exit,        \* the object whose session ended latest, 0 if none
    last,             \* the latest call: [op, args, result, ret]
    old               \* [tags, data, backup_dir, file] as they were when
                      \* the latest call began

vars == <<tags, enforce_tags, backups_enabled, data, file, pc, exit_saves,
          at_exit, stem, backup_dir, handle, peer, last_exit, last, old>>

----------------------------------------------------------------------------
(* Bounds of the model *)

\* most records the list grows to under Spec
MaxRecords == 2
\* most records the list grows to under IndexSpec
MaxIndexRecords == 3
\* most records the list grows to under UntypedSpec
MaxUntypedRecords == 1
\* most records the list grows to under SessionSpec
MaxSessionRecords == 1
\* most records the list grows to under RoundTripSpec
MaxRoundTripRecords == 1
\* most records the list grows to under FindSpec
MaxFindRecords == 2
\* most records the list grows to under FormatSpec
MaxFormatRecords == 2
\* most records the list grows to under RaceSpec
MaxRaceRecords == 1
\* the clock of BackupSpec reads 1..MaxTime
MaxTime == 3
\* the retention counts of BackupSpec are 0..MaxKeep, and the default
MaxKeep == 2
MaxFaultAt == 2

----------------------------------------------------------------------------
(* Python values *)

Str(s)   == [kind |-> "str", v |-> s]
PyInt(i) == [kind |-> "int", v |-> i]
PyFloat  == [kind |-> "float", v |-> "1.5"]
PyBool(b) == [kind |-> "bool", v |-> b]
NoneV    == [kind |-> "none", v |-> "None"]
\* a list object: not a scalar, and unhashable
ListV    == [kind |-> "list", v |-> <<PyInt(7)>>]
Tuple(q) == [kind |-> "tuple", v |-> q]
Dict(f)  == [kind |-> "dict", v |-> f]

\* the dict with no keys
NoAttrs == [k \in {} |-> NoneV]
\* the dict {key: value}
Attr(key, value) == [k \in {key} |-> value]

\* isinstance(x, str)
IsStr(x) == x.kind = "str"

\* hash(x) succeeds: what set(), set.remove and `in` need of an element
Hashable(x) == x.kind # "list"

\* bool(x): Python's truth value, which `x or y` tests
Truthy(x) ==
    CASE x.kind = "none"  -> FALSE
      [] x.kind = "str"   -> x.v # ""
      [] x.kind = "int"   -> x.v # 0
      [] x.kind = "bool"  -> x.v
      [] x.kind = "float" -> TRUE
      [] x.kind = "list"  -> x.v # <<>>
      [] x.kind = "tuple" -> x.v # <<>>
      [] x.kind = "dict"  -> DOMAIN x.v # {}

\* the elements of a sequence: what set(iterable) holds
Range(q) == {q[i] : i \in DOMAIN q}

\* the position (from 1) that list[i] addresses in a list of n elements,
\* counting a negative i from the end, or 0 where Python raises IndexError
ListPos(n, i) ==
    IF i >= 0
    THEN IF i < n THEN i + 1 ELSE 0
    ELSE IF i + n >= 0 THEN i + n + 1 ELSE 0

\* the list after `del list[p - 1]`
DelAt(q, p) == SubSeq(q, 1, p - 1) \o SubSeq(q, p + 1, Len(q))

Entry(d, t, a) == [data |-> d, tags |-> t, attrs |-> a]

----------------------------------------------------------------------------
(* Record operations, as functions of the document they start from *)

\* what a call leaves in `last`
Call(op, args, result, ret) ==
    [op |-> op, args |-> args, result |-> result, ret |-> ret]

\* the value types set() admits for an attribute
IsScalar(x) == x.kind \in {"str", "int", "float", "bool"}

\* the tag test with the vocabulary checked whatever enforce_tags is
SetTagCheckUnconditional(tag) ==
    IF ~IsStr(tag) THEN "TypeError"
    ELSE IF tag \notin tags THEN "ValueError"
    ELSE "ok"

\* set(): the tag loop's test of one tag; "ok" when the tag passes
SetTagCheck(tag) ==
    IF ~IsStr(tag) THEN "TypeError"
    ELSE IF enforce_tags /\ tag \notin tags THEN "ValueError"
    ELSE "ok"

\* set(): how the validation ends, the checks taken in the code's order
SetResult(d, t, a) ==
    IF ~IsStr(d) THEN "TypeError"
    ELSE IF \E i \in DOMAIN t : SetTagCheck(t[i]) # "ok"
    THEN LET first == CHOOSE i \in DOMAIN t :
                          /\ SetTagCheck(t[i]) # "ok"
                          /\ \A j \in 1..(i - 1) : SetTagCheck(t[j]) = "ok"
         IN  SetTagCheck(t[first])
    ELSE IF \E k \in DOMAIN a : ~IsStr(k) \/ ~IsScalar(a[k]) THEN "TypeError"
    ELSE "ok"

\* set() with the new entry put first instead of last
SetDataPrepend(d, t, a) ==
    IF SetResult(d, t, a) = "ok"
    THEN <<Entry(d, Range(t), a)>> \o data
    ELSE data

\* set(): the list after the call
SetData(d, t, a) ==
    IF SetResult(d, t, a) = "ok"
    THEN Append(data, Entry(d, Range(t), a))
    ELSE data

\* unset(): how the call ends
UnsetResult(index) ==
    IF index.kind \notin {"int", "bool"} THEN "TypeError"
    ELSE IF ListPos(Len(data), index.v) = 0 THEN "IndexError"
    ELSE "ok"

\* unset() deleting the entry after the one addressed
UnsetDataNext(index) ==
    IF UnsetResult(index) = "ok"
    THEN DelAt(data, ListPos(Len(data), index.v) + 1)
    ELSE data

\* unset(): the list after the call
UnsetData(index) ==
    IF UnsetResult(index) = "ok"
    THEN DelAt(data, ListPos(Len(data), index.v))
    ELSE data

\* at_index(): how the call ends; a subscript that is no integer is the
\* list's own TypeError, which at_index does not catch
AtIndexResult(index) ==
    IF index.kind \notin {"int", "bool"} THEN "TypeError"
    ELSE IF ListPos(Len(data), index.v) = 0 THEN "IndexError"
    ELSE "ok"

\* at_index(): the entry returned
AtIndexRet(index) ==
    IF AtIndexResult(index) = "ok"
    THEN data[ListPos(Len(data), index.v)]
    ELSE NoneV

\* edit_id(): `tags or entry[1]`, as the set of its elements
EditTagSource(entry, t) == IF Truthy(t) THEN Range(t.v) ELSE entry.tags

\* edit_id(): how the call ends
EditResult(id, d, t, a) ==
    IF AtIndexResult(id) # "ok" THEN AtIndexResult(id)
    ELSE IF \E x \in EditTagSource(AtIndexRet(id), t) : ~Hashable(x)
    THEN "TypeError"
    ELSE "ok"

\* edit_id() taking only None for "not supplied", an empty value replacing
EditEntryNoneOnly(entry, d, t, a) ==
    Entry(IF d.kind # "none" THEN d ELSE entry.data,
          IF enforce_tags
          THEN EditTagSource(entry, t) \cap tags
          ELSE EditTagSource(entry, t),
          IF a.kind # "none" THEN a.v ELSE entry.attrs)

\* edit_id() without the intersection with the vocabulary
EditEntryUnfiltered(entry, d, t, a) ==
    Entry(IF Truthy(d) THEN d ELSE entry.data,
          EditTagSource(entry, t),
          IF Truthy(a) THEN a.v ELSE entry.attrs)

\* edit_id(): the entry written back
EditEntry(entry, d, t, a) ==
    Entry(IF Truthy(d) THEN d ELSE entry.data,
          IF enforce_tags
          THEN EditTagSource(entry, t) \cap tags
          ELSE EditTagSource(entry, t),
          IF Truthy(a) THEN a.v ELSE entry.attrs)

\* edit_id(): the list after the call
EditData(id, d, t, a) ==
    IF EditResult(id, d, t, a) = "ok"
    THEN [data EXCEPT ![ListPos(Len(data), id.v)] =
              EditEntry(AtIndexRet(id), d, t, a)]
    ELSE data

\* query() with the subset test the wrong way round
RECURSIVE QueryFromReversed(_, _)
QueryFromReversed(wanted, i) ==
    IF i > Len(data) THEN <<>>
    ELSE (IF data[i].tags \subseteq wanted THEN <<i - 1>> ELSE <<>>)
         \o QueryFromReversed(wanted, i + 1)

\* query(): the ids collected by the loop over entries i..len, in its order
RECURSIVE QueryFrom(_, _)
QueryFrom(wanted, i) ==
    IF i > Len(data) THEN <<>>
    ELSE (IF wanted \subseteq data[i].tags THEN <<i - 1>> ELSE <<>>)
         \o QueryFrom(wanted, i + 1)

\* query(): how the call ends; set(tags) hashes every element
QueryResult(t) == IF \E x \in Range(t.v) : ~Hashable(x) THEN "TypeError" ELSE "ok"

\* query(): the list of ids returned
QueryRet(t) == IF QueryResult(t) = "ok" THEN QueryFrom(Range(t.v), 1) ELSE <<>>

(* id().  Where a text is searched in, a string's v is the list of its     *)
(* characters.                                                             *)

\* str.lower() of one character
LowerChar(c) ==
    CASE c = "A" -> "a"
      [] c = "B" -> "b"
      [] c = "C" -> "c"
      [] OTHER   -> c

\* str.lower()
Lower(text) == [i \in DOMAIN text |-> LowerChar(text[i])]

\* sub in text, of two strings
Contains(sub, text) ==
    \E k \in 0..(Len(text) - Len(sub)) : SubSeq(text, k + 1, k + Len(sub)) = sub

\* id(): the test the loop makes on one entry: "yes", "no", or the
\* exception it raises
IdTest(d, contains, case_insensitive, entry) ==
    IF ~case_insensitive
    THEN IF ~contains
         THEN IF d = entry.data THEN "yes" ELSE "no"
         ELSE IF IsStr(d) /\ IsStr(entry.data)
              THEN IF Contains(d.v, entry.data.v) THEN "yes" ELSE "no"
              ELSE "TypeError"
    ELSE IF ~IsStr(d) \/ ~IsStr(entry.data)
         THEN "AttributeError"
         ELSE IF ~contains
              THEN IF Lower(d.v) = Lower(entry.data.v) THEN "yes" ELSE "no"
              ELSE IF Contains(Lower(d.v), Lower(entry.data.v)) THEN "yes" ELSE "no"

\* id(): the loop from position i on: how it ends and what it returns
RECURSIVE IdFrom(_, _, _, _)
IdFrom(d, contains, case_insensitive, i) ==
    IF i > Len(data)
    THEN [result |-> "ValueError", ret |-> NoneV]
    ELSE LET test == IdTest(d, contains, case_insensitive, data[i])
         IN  CASE test = "yes" -> [result |-> "ok", ret |-> PyInt(i - 1)]
               [] test = "no"  -> IdFrom(d, contains, case_insensitive, i + 1)
               [] OTHER        -> [result |-> test, ret |-> NoneV]

(* format().  A format string is the list of its tokens: a macro with its *)
(* arguments, as one of the four patterns matches it, or the text between  *)
(* two macros.  An output line is the list of its tokens too; a value that *)
(* format() has put in is one token, which names the macro it came from,   *)
(* that macro's arguments (width, fill, separators) and the value.  The    *)
(* texts of the records are taken to hold no macro.                        *)

Lit(s) == [kind |-> "lit", name |-> "", args |-> "", v |-> s]

Macro(name, args) == [kind |-> "macro", name |-> name, args |-> args, v |-> ""]

Out(name, args, value) == [kind |-> "out", name |-> name, args |-> args, v |-> value]

MacroNames == <<"id", "data", "tags", "attrs">>

\* DEFAULT_FORMAT_STRING
DefaultFormatString ==
    << Lit("["), Macro("id", "3"), Lit("] \""), Macro("data", ""), Lit("\" ["),
       Macro("tags", ", "), Lit("] {"), Macro("attrs", ": |; "), Lit("}") >>

\* format(): final_fmt_string
FinalFmtString(fmt_string) ==
    IF fmt_string = NoneV THEN DefaultFormatString ELSE fmt_string.v

\* re.search(pattern of a macro, text): the position of the leftmost match,
\* 0 for None
Search(name, text) ==
    IF \E p \in DOMAIN text : text[p].kind = "macro" /\ text[p].name = name
    THEN CHOOSE p \in DOMAIN text :
             /\ text[p].kind = "macro" /\ text[p].name = name
             /\ \A q \in 1..(p - 1) : ~(text[q].kind = "macro" /\ text[q].name = name)
    ELSE 0

\* a replace that stops after the first occurrence: str.replace(x, y, 1)
ReplaceFirst(line, target, token) ==
    [p \in DOMAIN line |->
        IF line[p] = target /\ \A q \in 1..(p - 1) : line[q] # target
        THEN token ELSE line[p]]

\* line.replace(match.group(0), value): every occurrence of the matched
\* text is replaced
Replace(line, target, token) ==
    [p \in DOMAIN line |-> IF line[p] = target THEN token ELSE line[p]]

\* format(): what a macro stands for in the line of an entry
Embedded(name, id_to_embed, entry) ==
    CASE name = "id"    -> PyInt(id_to_embed)
      [] name = "data"  -> entry.data
      [] name = "tags"  -> entry.tags
      [] name = "attrs" -> entry.attrs

\* format(): the line of one entry, after the macros from the k-th of
\* MacroNames on are replaced in turn
RECURSIVE FormatLine(_, _, _, _, _)
FormatLine(line, fmt, k, id_to_embed, entry) ==
    IF k > Len(MacroNames) THEN line
    ELSE LET name == MacroNames[k]
             at == Search(name, fmt)
             next == IF at = 0 THEN line
                     ELSE Replace(line, fmt[at],
                                  Out(name, fmt[at].args,
                                      Embedded(name, id_to_embed, entry)))
         IN  FormatLine(next, fmt, k + 1, id_to_embed, entry)

\* format(): the loop over ids from position i on: how it ends, and the
\* lines it has made
RECURSIVE FormatFrom(_, _, _, _)
FormatFrom(ids, fmt, use_real_ids, i) ==
    IF i > Len(ids) THEN [result |-> "ok", lines |-> <<>>]
    ELSE IF ids[i].kind # "int" THEN [result |-> "TypeError", lines |-> <<>>]
    ELSE IF AtIndexResult(ids[i]) # "ok"
    THEN [result |-> AtIndexResult(ids[i]), lines |-> <<>>]
    ELSE LET rest == FormatFrom(ids, fmt, use_real_ids, i + 1)
             id_to_embed == IF use_real_ids THEN ids[i].v ELSE i - 1
         IN  IF rest.result # "ok" THEN rest
             ELSE [result |-> "ok",
                   lines |-> <<FormatLine(fmt, fmt, 1, id_to_embed,
                                          AtIndexRet(ids[i]))>> \o rest.lines]

----------------------------------------------------------------------------
(* Vocabulary operations *)

\* add_tag(): how the call ends
AddTagResult(tag) == IF IsStr(tag) THEN "ok" ELSE "TypeError"

\* add_tag(): the vocabulary after the call
AddTagTags(vocab, tag) == IF AddTagResult(tag) = "ok" THEN vocab \cup {tag} ELSE vocab

\* a rm_tag() that lets the KeyError of set.remove through
RmTagResultUncaught(tag) ==
    IF ~Hashable(tag) THEN "TypeError"
    ELSE IF tag \in tags THEN "ok" ELSE "KeyError"

\* rm_tag(): how the call ends; set.remove hashes its argument, and only
\* KeyError is caught
RmTagResult(tag) == IF Hashable(tag) THEN "ok" ELSE "TypeError"

\* rm_tag(): the vocabulary after the call
RmTagTags(vocab, tag) == IF RmTagResult(tag) = "ok" THEN vocab \ {tag} ELSE vocab

\* add_tags(): the loop from element i on, one add_tag per element; the
\* first add_tag that raises ends the loop with what was added before it
RECURSIVE AddTagsFrom(_, _, _)
AddTagsFrom(t, i, vocab) ==
    IF i > Len(t) THEN [result |-> "ok", tags |-> vocab]
    ELSE IF AddTagResult(t[i]) # "ok"
    THEN [result |-> AddTagResult(t[i]), tags |-> vocab]
    ELSE AddTagsFrom(t, i + 1, AddTagTags(vocab, t[i]))

\* rm_tags(): the loop from element i on, one rm_tag per element
RECURSIVE RmTagsFrom(_, _, _)
RmTagsFrom(t, i, vocab) ==
    IF i > Len(t) THEN [result |-> "ok", tags |-> vocab]
    ELSE IF RmTagResult(t[i]) # "ok"
    THEN [result |-> RmTagResult(t[i]), tags |-> vocab]
    ELSE RmTagsFrom(t, i + 1, RmTagTags(vocab, t[i]))

\* the enforce_tags and backups_enabled setters: how the assignment ends
SetterResult(value) == IF value.kind = "bool" THEN "ok" ELSE "TypeError"

----------------------------------------------------------------------------
(* The operations as actions on a live handle *)

Live == pc \in {"handle", "body"}

Before == [tags |-> tags, data |-> data, backup_dir |-> backup_dir, file |-> file]

session_vars ==
    <<file, pc, exit_saves, at_exit, stem, backup_dir, handle, peer, last_exit>>

\* Database.set(data, *tags, **attrs)
Set(d, t, a) ==
    /\ Live
    /\ data' = SetData(d, t, a)
    /\ last' = Call("set", [data |-> d, tags |-> t, attrs |-> a],
                    SetResult(d, t, a), NoneV)
    /\ old' = Before
    /\ UNCHANGED <<tags, enforce_tags, backups_enabled, session_vars>>

\* Database.unset(index)
Unset(index) ==
    /\ Live
    /\ data' = UnsetData(index)
    /\ last' = Call("unset", [index |-> index], UnsetResult(index), NoneV)
    /\ old' = Before
    /\ UNCHANGED <<tags, enforce_tags, backups_enabled, session_vars>>

\* Database.at_index(index)
AtIndex(index) ==
    /\ Live
    /\ last' = Call("at_index", [index |-> index], AtIndexResult(index),
                    AtIndexRet(index))
    /\ old' = Before
    /\ UNCHANGED <<tags, enforce_tags, backups_enabled, data, session_vars>>

\* Database.edit_id(id, data, tags, attrs)
EditId(id, d, t, a) ==
    /\ Live
    /\ data' = EditData(id, d, t, a)
    /\ last' = Call("edit_id", [id |-> id, data |-> d, tags |-> t, attrs |-> a],
                    EditResult(id, d, t, a), NoneV)
    /\ old' = Before
    /\ UNCHANGED <<tags, enforce_tags, backups_enabled, session_vars>>

\* Database.query(tags)
Query(t) ==
    /\ Live
    /\ last' = Call("query", [tags |-> t], QueryResult(t), QueryRet(t))
    /\ old' = Before
    /\ UNCHANGED <<tags, enforce_tags, backups_enabled, data, session_vars>>

\* Database.id(data, contains, case_insensitive)
Id(d, contains, case_insensitive) ==
    /\ Live
    /\ last' = Call("id", [data |-> d, contains |-> contains,
                           case_insensitive |-> case_insensitive],
                    IdFrom(d, contains, case_insensitive, 1).result,
                    IdFrom(d, contains, case_insensitive, 1).ret)
    /\ old' = Before
    /\ UNCHANGED <<tags, enforce_tags, backups_enabled, data, session_vars>>

\* Database.format(ids, fmt_string, use_real_ids)
Format(ids, fmt_string, use_real_ids) ==
    /\ Live
    /\ last' = Call("format", [ids |-> ids, fmt_string |-> fmt_string,
                               use_real_ids |-> use_real_ids],
                    FormatFrom(ids, FinalFmtString(fmt_string), use_real_ids, 1).result,
                    FormatFrom(ids, FinalFmtString(fmt_string), use_real_ids, 1).lines)
    /\ old' = Before
    /\ UNCHANGED <<tags, enforce_tags, backups_enabled, data, session_vars>>

\* Database.add_tag(tag)
AddTag(tag) ==
    /\ Live
    /\ tags' = AddTagTags(tags, tag)
    /\ last' = Call("add_tag", [tag |-> tag], AddTagResult(tag), NoneV)
    /\ old' = Before
    /\ UNCHANGED <<enforce_tags, backups_enabled, data, session_vars>>

\* a rm_tag() that also takes the tag off every record that carries it
RmTagRetroactive(tag) ==
    /\ Live
    /\ tags' = RmTagTags(tags, tag)
    /\ data' = [i \in DOMAIN data |->
                   Entry(data[i].data, data[i].tags \ {tag}, data[i].attrs)]
    /\ last' = Call("rm_tag", [tag |-> tag], RmTagResult(tag), NoneV)
    /\ old' = Before
    /\ UNCHANGED <<enforce_tags, backups_enabled, session_vars>>

\* Database.rm_tag(tag)
RmTag(tag) ==
    /\ Live
    /\ tags' = RmTagTags(tags, tag)
    /\ last' = Call("rm_tag", [tag |-> tag], RmTagResult(tag), NoneV)
    /\ old' = Before
    /\ UNCHANGED <<enforce_tags, backups_enabled, data, session_vars>>

\* Database.clear_tags()
ClearTags ==
    /\ Live
    /\ tags' = {}
    /\ last' = Call("clear_tags", <<>>, "ok", NoneV)
    /\ old' = Before
    /\ UNCHANGED <<enforce_tags, backups_enabled, data, session_vars>>

\* Database.add_tags(tags)
AddTags(t) ==
    /\ Live
    /\ tags' = AddTagsFrom(t, 1, tags).tags
    /\ last' = Call("add_tags", [tags |-> t], AddTagsFrom(t, 1, tags).result, NoneV)
    /\ old' = Before
    /\ UNCHANGED <<enforce_tags, backups_enabled, data, session_vars>>

\* Database.rm_tags(tags)
RmTags(t) ==
    /\ Live
    /\ tags' = RmTagsFrom(t, 1, tags).tags
    /\ last' = Call("rm_tags", [tags |-> t], RmTagsFrom(t, 1, tags).result, NoneV)
    /\ old' = Before
    /\ UNCHANGED <<enforce_tags, backups_enabled, data, session_vars>>

\* the enforce_tags setter
SetEnforceTags(value) ==
    /\ Live
    /\ enforce_tags' = IF SetterResult(value) = "ok" THEN value.v ELSE enforce_tags
    /\ last' = Call("enforce_tags", [value |-> value], SetterResult(value), NoneV)
    /\ old' = Before
    /\ UNCHANGED <<tags, backups_enabled, data, session_vars>>

\* the backups_enabled setter
SetBackupsEnabled(value) ==
    /\ Live
    /\ backups_enabled' = IF SetterResult(value) = "ok" THEN value.v ELSE backups_enabled
    /\ last' = Call("backups_enabled", [value |-> value], SetterResult(value), NoneV)
    /\ old' = Before
    /\ UNCHANGED <<tags, enforce_tags, data, session_vars>>

----------------------------------------------------------------------------
(* The backing file and the session of Database.open *)

\* list(obj) of SetEncoder.default: the elements of a set in one order
SetToSeq(S) == CHOOSE q \in [1..Cardinality(S) -> S] : Range(q) = S

\* json.dump of one value: the JSON type it is written as
ToJson(x) ==
    CASE x.kind = "str"   -> [json |-> "string", v |-> x.v]
      [] x.kind = "int"   -> [json |-> "int", v |-> x.v]
      [] x.kind = "float" -> [json |-> "real", v |-> x.v]
      [] x.kind = "bool"  -> [json |-> IF x.v THEN "true" ELSE "false", v |-> x.v]
      [] x.kind = "none"  -> [json |-> "null", v |-> "null"]
      [] x.kind = "list"  -> [json |-> "array", v |-> x.v]

\* json.loads of one value
FromJson(j) ==
    CASE j.json = "string" -> Str(j.v)
      [] j.json = "int"    -> PyInt(j.v)
      [] j.json = "real"   -> [kind |-> "float", v |-> j.v]
      [] j.json = "true"   -> PyBool(TRUE)
      [] j.json = "false"  -> PyBool(FALSE)
      [] j.json = "null"   -> NoneV
      [] j.json = "array"  -> [kind |-> "list", v |-> j.v]

\* json.dump of a dict key: a string as it is, an integer as its digits
JsonKey(x) ==
    CASE x.kind = "str" -> x.v
      [] x.kind = "int" -> IF x.v = 7 THEN "7" ELSE "0"

\* json.dump of a dict: a JSON object, each key written as a string
ToJsonObject(f) ==
    [k \in {JsonKey(x) : x \in DOMAIN f} |->
        ToJson(f[CHOOSE x \in DOMAIN f : JsonKey(x) = k])]

\* json.loads of a JSON object: a dict whose keys are strings
FromJsonObject(o) ==
    LET keys == {Str(k) : k \in DOMAIN o}
    IN  [x \in keys |-> FromJson(o[x.v])]

\* the document a handle holds
Doc(t, e, b, d) ==
    [tags |-> t, enforce_tags |-> e, backups_enabled |-> b, data |-> d]

Current == Doc(tags, enforce_tags, backups_enabled, data)

\* Database.empty(): the document of a new database
Empty == Doc({}, FALSE, FALSE, <<>>)

\* the file Path.touch leaves: zero length
EmptyFile == [kind |-> "empty"]

\* build_structure() as json.dump writes it: sets and tuples become arrays
Dump(doc) ==
    [kind |-> "json",
     tags |-> SetToSeq({ToJson(x) : x \in doc.tags}),
     enforce_tags |-> doc.enforce_tags,
     backups_enabled |-> doc.backups_enabled,
     data |-> [i \in DOMAIN doc.data |->
                  << ToJson(doc.data[i].data),
                     SetToSeq({ToJson(x) : x \in doc.data[i].tags}),
                     ToJsonObject(doc.data[i].attrs) >>],
     version |-> "version"]

\* open(): the document read from a file's JSON; an entry's tags come back
\* as a list, which every operation reads as the set of its elements
Load(f) ==
    Doc({FromJson(j) : j \in Range(f.tags)},
        f.enforce_tags,
        f.backups_enabled,
        [i \in DOMAIN f.data |->
            Entry(FromJson(f.data[i][1]),
                  {FromJson(j) : j \in Range(f.data[i][2])},
                  FromJsonObject(f.data[i][3]))])

\* the keys of the structure that open() reads
RequiredKeys == {"version", "tags", "enforce_tags", "backups_enabled", "data"}

\* open(): how reading and parsing the file ends: json.loads raises on a
\* zero-length text, and structure[key] raises on a missing key
OpenResult ==
    IF file = EmptyFile THEN "JSONDecodeError"
    ELSE IF ~(RequiredKeys \subseteq DOMAIN file) THEN "KeyError"
    ELSE "ok"

(* File names.  A name is the list of the parts a "." separates, each the  *)
(* list of the parts a "_" separates, so that str.split and                *)
(* str.startswith work on it as they do on the text.                       *)

\* a text with no "." and no "_" in it, as a name
Text(s) == << <<s>> >>

\* the name a + "." + b
DotJoin(a, b) == a \o b

\* the name a + "_" + b
UnderJoin(a, b) ==
    SubSeq(a, 1, Len(a) - 1) \o << a[Len(a)] \o b[1] >> \o Tail(b)

\* the decimal numerals of the integers from 1
Numerals == <<"1", "2", "3", "4", "5", "6">>

\* str(i), as an f-string writes an integer
DecimalOf(i) == IF i = 0 THEN "0" ELSE Numerals[i]

\* a parse that reads every text that is no numeral as 0
ParseIntLenient(s) ==
    IF \E i \in 0..Len(Numerals) : DecimalOf(i) = s
    THEN [ok |-> TRUE, v |-> CHOOSE i \in 0..Len(Numerals) : DecimalOf(i) = s]
    ELSE IF s = "-1" THEN [ok |-> TRUE, v |-> 0 - 1]
    ELSE [ok |-> TRUE, v |-> 0]

\* int(s): the integer a text is the numeral of (of the negative ones, -1
\* is read), or ValueError
ParseInt(s) ==
    IF \E i \in 0..Len(Numerals) : DecimalOf(i) = s
    THEN [ok |-> TRUE, v |-> CHOOSE i \in 0..Len(Numerals) : DecimalOf(i) = s]
    ELSE IF s = "-1" THEN [ok |-> TRUE, v |-> 0 - 1]
    ELSE [ok |-> FALSE, v |-> "ValueError"]

\* f".jsondb_backup_{path.stem}_{text}.jsondb"
BackupFileNamed(st, text) ==
    DotJoin(DotJoin(Text(""),
                    UnderJoin(UnderJoin(<< <<"jsondb", "backup">> >>, st),
                              Text(text))),
            Text("jsondb"))

\* the backup file open() writes at a time
BackupFileName(st, timestamp) == BackupFileNamed(st, DecimalOf(timestamp))

\* f".jsondb_backup_{path.stem}_": it ends in "_", an empty last part
BackupPrefix(st) ==
    DotJoin(Text(""),
            UnderJoin(UnderJoin(<< <<"jsondb", "backup">> >>, st), Text("")))

\* name.startswith(prefix), for a prefix that ends in "_"
StartsWith(name, prefix) ==
    LET m == Len(prefix)
        k == Len(prefix[m]) - 1
    IN  /\ Len(name) >= m
        /\ \A i \in 1..(m - 1) : name[i] = prefix[i]
        /\ Len(name[m]) > k
        /\ SubSeq(name[m], 1, k) = SubSeq(prefix[m], 1, k)

\* int(file.name.split(".")[1].split("_")[-1])
TimeOf(name) == LET part == name[2] IN ParseInt(part[Len(part)])

\* open(): whether a file of the backup directory enters valid_backup_files
IsValidBackup(name, st) ==
    /\ StartsWith(name, BackupPrefix(st))
    /\ TimeOf(name).ok

\* the keys of valid_backup_files
ValidBackupFiles(dir, st) == {name \in DOMAIN dir : IsValidBackup(name, st)}

\* the default of backup_keep_count
DefaultKeepCount == 50

\* str(os.getenv("JSONDB_BACKUP_KEEP_COUNT")): "None" when it is not set
EnvText(env) == IF env = NoneV THEN "None" ELSE env.v

\* open(): backup_keep_count
BackupKeepCount(env) ==
    IF ParseInt(EnvText(env)).ok THEN ParseInt(EnvText(env)).v ELSE DefaultKeepCount

\* the backup directory once the new backup is written: open(mode="w")
\* creates the file or replaces what a file of that name held
Written(dir, st, timestamp, json_) ==
    [name \in DOMAIN dir \cup {BackupFileName(st, timestamp)} |->
        IF name = BackupFileName(st, timestamp) THEN json_ ELSE dir[name]]

\* the orders Path.iterdir may list a set of files in
Orderings(S) == {q \in [1..Cardinality(S) -> S] : Range(q) = S}

\* sorted(valid_backup_files.items(), key=time): ascending and stable
RECURSIVE SortedByTime(_)
SortedByTime(q) ==
    IF q = <<>> THEN <<>>
    ELSE LET i == CHOOSE i \in DOMAIN q :
                     /\ \A j \in DOMAIN q : TimeOf(q[i]).v <= TimeOf(q[j]).v
                     /\ \A j \in 1..(i - 1) : TimeOf(q[j]).v > TimeOf(q[i]).v
         IN  <<q[i]>> \o SortedByTime(DelAt(q, i))

\* what the file system does to open(): nothing, or an OSError from the
\* write of the backup file, or from the at-th unlink of the rotation
NoFault == [step |-> "none", at |-> 0]
WriteFault == [step |-> "write", at |-> 0]
UnlinkFault(n) == [step |-> "unlink", at |-> n]

\* the while loop of the rotation from its n-th unlink on: how it ends and
\* the files it has unlinked; valid_sorted[0] of an empty list raises
RECURSIVE Unlinked(_, _, _, _)
Unlinked(valid_sorted, keep, n, fault) ==
    IF Len(valid_sorted) > keep
    THEN IF valid_sorted = <<>> THEN [result |-> "IndexError", gone |-> {}]
         ELSE IF fault = UnlinkFault(n) THEN [result |-> "OSError", gone |-> {}]
         ELSE LET rest == Unlinked(Tail(valid_sorted), keep, n + 1, fault)
              IN  [result |-> rest.result, gone |-> {valid_sorted[1]} \cup rest.gone]
    ELSE [result |-> "ok", gone |-> {}]

\* open(): how the rotation ends and the files it deletes, when iterdir
\* lists the valid files of the directory in this order
Rotated(order, keep, fault) ==
    IF Len(order) > keep
    THEN Unlinked(SortedByTime(order), keep, 1, fault)
    ELSE [result |-> "ok", gone |-> {}]

\* open(): how backup and rotation end, and the backup directory after them
BackedUp(dir, st, timestamp, env, order, json_, fault) ==
    IF fault = WriteFault THEN [result |-> "OSError", dir |-> dir]
    ELSE LET written == Written(dir, st, timestamp, json_)
             rotated == Rotated(order, BackupKeepCount(env), fault)
         IN  [result |-> rotated.result,
              dir |-> [name \in DOMAIN written \ rotated.gone |-> written[name]]]

\* an open() whose save runs however it ends, before its yield too
FileSavedOnFailure(result) ==
    IF result = "ok" THEN file ELSE Dump(Current)

\* open(): the backing file when open() has reached its yield or has raised
\* before it: open() has only read it
FileAfterOpen(result) == file

\* a backup of the document the object holds
WritesCurrentDocument(f) == Dump(Current)

\* open(): the text written to the backup file: json_, as read
BackupContent(f) == f

\* the ways a session body ends
ExitKinds == {"normal", "return", "error"}

\* the save placed after the yield with no try/finally round it: reached
\* only when the body runs to its end
RunsAfterBodyOnly(kind) == kind = "normal"

\* open(): whether the save of the finally clause runs when the body ends
\* this way
RunsFinally(kind) == kind \in ExitKinds

\* Database.save()
Save ==
    /\ Live
    /\ file' = Dump(Current)
    /\ last' = Call("save", <<>>, "ok", NoneV)
    /\ old' = Before
    /\ UNCHANGED <<tags, enforce_tags, backups_enabled, data, pc, exit_saves,
                   at_exit, stem, backup_dir, handle, peer, last_exit>>

\* open(): how the code before the yield ends and the backup directory it
\* leaves
OpenOutcome(now, env, order, fault) ==
    IF OpenResult # "ok" THEN [result |-> OpenResult, dir |-> backup_dir]
    ELSE IF ~Load(file).backups_enabled THEN [result |-> "ok", dir |-> backup_dir]
    ELSE BackedUp(backup_dir, stem, now, env, order, BackupContent(file), fault)

\* Database.open(path), up to the yield: at time `now`, with the
\* environment variable JSONDB_BACKUP_KEEP_COUNT holding `env`, iterdir
\* listing the valid backup files in `order`, and the file system failing
\* as `fault` says
Open(now, env, order, fault) ==
    /\ pc \in {"none", "handle", "closed"}
    /\ IF OpenResult = "ok" /\ Load(file).backups_enabled
       THEN order \in Orderings(ValidBackupFiles(
                Written(backup_dir, stem, now, BackupContent(file)), stem))
       ELSE order = <<>>
    /\ backup_dir' = OpenOutcome(now, env, order, fault).dir
    /\ IF OpenOutcome(now, env, order, fault).result = "ok"
       THEN /\ tags' = Load(file).tags
            /\ enforce_tags' = Load(file).enforce_tags
            /\ backups_enabled' = Load(file).backups_enabled
            /\ data' = Load(file).data
            /\ pc' = "body"
            /\ exit_saves' = 0
            /\ at_exit' = Empty
       ELSE UNCHANGED <<tags, enforce_tags, backups_enabled, data, pc,
                        exit_saves, at_exit>>
    /\ file' = FileAfterOpen(OpenOutcome(now, env, order, fault).result)
    /\ last' = Call("open", [now |-> now, env |-> env, fault |-> fault],
                    OpenOutcome(now, env, order, fault).result, NoneV)
    /\ old' = Before
    /\ UNCHANGED <<stem, handle, peer, last_exit>>

\* the body of the with statement ends, and open() resumes after its yield
ExitSession(kind) ==
    /\ pc = "body"
    /\ pc' = "closed"
    /\ at_exit' = Current
    /\ IF RunsFinally(kind)
       THEN /\ file' = Dump(Current)
            /\ exit_saves' = exit_saves + 1
       ELSE UNCHANGED <<file, exit_saves>>
    /\ last_exit' = handle
    /\ last' = Call("exit", [kind |-> kind], IF kind = "error" THEN "raised" ELSE "ok", NoneV)
    /\ old' = Before
    /\ UNCHANGED <<tags, enforce_tags, backups_enabled, data, stem, backup_dir,
                   handle, peer>>

\* a Database object the client does not hold yet
NoObject ==
    [tags |-> {}, enforce_tags |-> FALSE, backups_enabled |-> FALSE,
     data |-> <<>>, pc |-> "none", exit_saves |-> 0, at_exit |-> Empty]

\* the client turns to its other Database object: the calls that follow go
\* to it
Switch ==
    /\ handle' = 3 - handle
    /\ peer' = [tags |-> tags, enforce_tags |-> enforce_tags,
                backups_enabled |-> backups_enabled, data |-> data, pc |-> pc,
                exit_saves |-> exit_saves, at_exit |-> at_exit]
    /\ tags' = peer.tags
    /\ enforce_tags' = peer.enforce_tags
    /\ backups_enabled' = peer.backups_enabled
    /\ data' = peer.data
    /\ pc' = peer.pc
    /\ exit_saves' = peer.exit_saves
    /\ at_exit' = peer.at_exit
    /\ UNCHANGED <<file, stem, backup_dir, last_exit, last, old>>

----------------------------------------------------------------------------
(* The state after Database(name) *)

\* a database name, and one with a "." in it: "db" and "my.db"
PlainStem == << <<"db">> >>
DottedStem == << <<"my">>, <<"db">> >>

\* Database(name) for a name, beside a backup directory left there earlier
\* a constructor that writes the empty document to the file it creates
InitSerialized(st, dir) ==
    /\ tags = {}
    /\ enforce_tags = FALSE
    /\ backups_enabled = FALSE
    /\ data = <<>>
    /\ file = Dump(Empty)
    /\ pc = "handle"
    /\ exit_saves = 0
    /\ at_exit = Empty
    /\ stem = st
    /\ backup_dir = dir
    /\ handle = 1
    /\ peer = NoObject
    /\ last_exit = 0
    /\ last = Call("none", <<>>, "ok", NoneV)
    /\ old = [tags |-> {}, data |-> <<>>, backup_dir |-> <<>>, file |-> Dump(Empty)]

InitOf(st, dir) ==
    /\ tags = {}
    /\ enforce_tags = FALSE
    /\ backups_enabled = FALSE
    /\ data = <<>>
    /\ file = EmptyFile
    /\ pc = "handle"
    /\ exit_saves = 0
    /\ at_exit = Empty
    /\ stem = st
    /\ backup_dir = dir
    /\ handle = 1
    /\ peer = NoObject
    /\ last_exit = 0
    /\ last = Call("none", <<>>, "ok", NoneV)
    /\ old = [tags |-> {}, data |-> <<>>, backup_dir |-> <<>>, file |-> EmptyFile]

Init == InitOf(PlainStem, <<>>)

----------------------------------------------------------------------------
(* The calls a client makes: the inputs of each operation *)

TagA == Str("a")
TagB == Str("b")

\* data: two strings, and a value that is no string
DataArgs == {Str("x"), Str("y"), PyInt(7)}

\* *tags: none, one, two, a repeated tag, and a tag that is no string before
\* and after a string
TagArgs ==
    { <<>>, <<TagA>>, <<TagB>>, <<TagA, TagB>>, <<TagA, TagA>>,
      <<TagA, PyInt(7)>>, <<PyInt(7), TagB>>, <<TagB, PyInt(7)>> }

\* **attrs: none, a scalar, and a value that is no scalar
AttrArgs == {NoAttrs, Attr(Str("k"), PyInt(7)), Attr(Str("k"), ListV)}

\* an index: every integer from below -len to above len, and a string
IndexArgs ==
    {PyInt(i) : i \in (0 - MaxRecords - 1)..(MaxRecords + 1)} \cup {Str("x")}

\* edit_id(): the ids edited
EditIds == {PyInt(i) : i \in 0..MaxRecords}

\* edit_id(): each field left out (None), given empty, or given a value of
\* its declared type; and tags holding an unhashable element
EditArgs ==
    [data : {NoneV, Str(""), Str("y")},
     tags : {NoneV, Tuple(<<>>), Tuple(<<TagA, TagB>>)},
     attrs : {NoneV, Dict(NoAttrs), Dict(Attr(Str("k"), PyInt(7)))}]
    \cup {[data |-> NoneV, tags |-> Tuple(<<TagA, ListV>>), attrs |-> NoneV]}

\* query(): the tags asked for
QueryArgs == {<<>>, <<TagA>>, <<TagB>>, <<TagA, TagB>>, <<TagA, ListV>>}

\* add_tag() and rm_tag(): one tag
OneTagArgs == {TagA, TagB, PyInt(7), ListV}

\* add_tags() and rm_tags(): a list of tags
TagListArgs == {<<TagA, TagB>>, <<TagA, PyInt(7)>>, <<TagA, ListV>>, <<ListV, TagB>>}

\* a value assigned to a flag
FlagArgs == {PyBool(TRUE), PyBool(FALSE), PyInt(7)}

\* no call is held: the client is about to make one
NoCall == Call("none", <<>>, "ok", NoneV)

Idle == last = NoCall

\* the client drops what it held of the latest call, so that `last` and
\* `old` always describe one call from the state it was made in
Forget ==
    /\ ~Idle
    /\ last' = NoCall
    /\ old' = [tags |-> {}, data |-> <<>>, backup_dir |-> <<>>, file |-> EmptyFile]
    /\ UNCHANGED <<tags, enforce_tags, backups_enabled, data, session_vars>>

Next ==
    \/ /\ Idle
       /\ Len(data) < MaxRecords
       /\ \E d \in DataArgs, t \in TagArgs, a \in AttrArgs : Set(d, t, a)
    \/ Idle /\ \E i \in IndexArgs : Unset(i)
    \/ Idle /\ \E i \in IndexArgs : AtIndex(i)
    \/ Idle /\ \E i \in EditIds, e \in EditArgs : EditId(i, e.data, e.tags, e.attrs)
    \/ Idle /\ \E t \in QueryArgs : Query(Tuple(t))
    \/ Idle /\ \E tag \in OneTagArgs : AddTag(tag)
    \/ Idle /\ \E tag \in OneTagArgs : RmTag(tag)
    \/ Idle /\ ClearTags
    \/ Idle /\ \E t \in TagListArgs : AddTags(t)
    \/ Idle /\ \E t \in TagListArgs : RmTags(t)
    \/ Idle /\ \E value \in FlagArgs : SetEnforceTags(value)
    \/ Forget

Spec == Init /\ [][Next]_vars

----------------------------------------------------------------------------
(* Indices: a longer list of plain records, every index in and out of range *)

IndexDataArgs == {Str("x"), Str("y"), Str("z")}

WideIndexArgs ==
    {PyInt(i) : i \in (0 - MaxIndexRecords - 1)..(MaxIndexRecords + 1)} \cup {Str("x")}

IndexNext ==
    \/ /\ Idle
       /\ Len(data) < MaxIndexRecords
       /\ \E d \in IndexDataArgs : Set(d, <<>>, NoAttrs)
    \/ Idle /\ \E i \in WideIndexArgs : Unset(i)
    \/ Idle /\ \E i \in WideIndexArgs : AtIndex(i)
    \/ Idle /\ \E i \in WideIndexArgs, d \in {NoneV, Str("w")} : EditId(i, d, NoneV, NoneV)
    \/ Forget

IndexSpec == Init /\ [][IndexNext]_vars

----------------------------------------------------------------------------
(* Arguments of any type: what set() and edit_id() let into a record *)

UntypedDataArgs == {Str("x"), PyInt(7)}

UntypedTagArgs == {<<>>, <<TagA>>, <<PyInt(7)>>}

UntypedAttrArgs ==
    {NoAttrs} \cup
    {Attr(Str("k"), value) :
        value \in {Str("s"), PyInt(7), PyFloat, PyBool(TRUE), NoneV, ListV}}

UntypedEditArgs ==
    [data : {NoneV, PyInt(7)},
     tags : {NoneV, Tuple(<<PyInt(7)>>)},
     attrs : {NoneV, Dict(Attr(Str("k"), ListV)), Dict(Attr(PyInt(7), Str("s")))}]

UntypedNext ==
    \/ /\ Idle
       /\ Len(data) < MaxUntypedRecords
       /\ \E d \in UntypedDataArgs, t \in UntypedTagArgs, a \in UntypedAttrArgs :
             Set(d, t, a)
    \/ Idle /\ \E e \in UntypedEditArgs : EditId(PyInt(0), e.data, e.tags, e.attrs)
    \/ Idle /\ Unset(PyInt(0))
    \/ Forget

UntypedSpec == Init /\ [][UntypedNext]_vars

----------------------------------------------------------------------------
(* Searches: texts that differ in case and hold one another are stored and *)
(* searched for                                                            *)

\* the data stored: "Ab", "ab", "b"
FindDataArgs == {Str(<<"A", "b">>), Str(<<"a", "b">>), Str(<<"b">>)}

\* the data searched for: "ab", "b", "B", "c", "", and a value that is no
\* string
FindArgs ==
    {Str(<<"a", "b">>), Str(<<"b">>), Str(<<"B">>), Str(<<"c">>), Str(<<>>), PyInt(7)}

FindNext ==
    \/ /\ Idle
       /\ Len(data) < MaxFindRecords
       /\ \E d \in FindDataArgs : Set(d, <<>>, NoAttrs)
    \/ Idle /\ Unset(PyInt(0))
    \/ Idle /\ EditId(PyInt(0), PyInt(7), NoneV, NoneV)
    \/ Idle /\ \E d \in FindArgs, contains \in BOOLEAN, case_insensitive \in BOOLEAN :
                  Id(d, contains, case_insensitive)
    \/ Forget

FindSpec == Init /\ [][FindNext]_vars

----------------------------------------------------------------------------
(* Formats: format strings that repeat a macro, in the same and in other   *)
(* words                                                                   *)

\* '%id()|%id()', '%id(3)|%id()|%id(3)', '%data()|%tags("-")|%tags("-")|%tags("+")',
\* '%attrs(":",";")%attrs(":",";")%data(3)%data()', a text with no macro,
\* and None for the default
FmtStringArgs ==
    { Str(<<Macro("id", ""), Lit("|"), Macro("id", "")>>),
      Str(<<Macro("id", "3"), Lit("|"), Macro("id", ""), Lit("|"), Macro("id", "3")>>),
      Str(<<Macro("data", ""), Lit("|"), Macro("tags", "-"), Lit("|"),
            Macro("tags", "-"), Lit("|"), Macro("tags", "+")>>),
      Str(<<Macro("attrs", ":|;"), Macro("attrs", ":|;"), Macro("data", "3"),
            Macro("data", "")>>),
      Str(<<Lit("text")>>),
      NoneV }

\* the ids formatted: one, two in either order, one that is out of range,
\* one that is no integer
IdsArgs ==
    { <<PyInt(0)>>, <<PyInt(0), PyInt(1)>>, <<PyInt(1), PyInt(0)>>,
      <<PyInt(0), PyInt(MaxFormatRecords)>>, <<PyInt(0), Str("x")>> }

FormatNext ==
    \/ /\ Idle
       /\ Len(data) < MaxFormatRecords
       /\ \E d \in {Str("x"), Str("y")}, t \in {<<>>, <<TagA>>},
             a \in {NoAttrs, Attr(Str("k"), PyInt(7))} : Set(d, t, a)
    \/ Idle /\ \E ids \in IdsArgs, f \in FmtStringArgs, use_real_ids \in BOOLEAN :
                  Format(ids, f, use_real_ids)
    \/ Forget

FormatSpec == Init /\ [][FormatNext]_vars

----------------------------------------------------------------------------
(* Sessions: a handle is saved, opened in a with statement, used and left *)

SessionNext ==
    \/ /\ Idle
       /\ Len(data) < MaxSessionRecords
       /\ \E t \in {<<>>, <<TagA>>} : Set(Str("x"), t, NoAttrs)
    \/ Idle /\ Unset(PyInt(0))
    \/ Idle /\ AddTag(TagA)
    \/ Idle /\ \E value \in {PyBool(TRUE), PyBool(FALSE)} : SetEnforceTags(value)
    \/ Idle /\ Save
    \/ Idle /\ Open(1, NoneV, <<>>, NoFault)
    \/ Idle /\ \E kind \in ExitKinds : ExitSession(kind)
    \/ Forget

SessionSpec == Init /\ [][SessionNext]_vars

----------------------------------------------------------------------------
(* Round trips: every kind of document the operations build is saved and   *)
(* opened again                                                            *)

RoundTripTagArgs == {<<>>, <<TagA, TagB>>}

RoundTripAttrArgs == {NoAttrs, Attr(Str("k"), PyInt(7))}

\* edit_id(): attrs whose key is a string, and attrs whose key is an integer
RoundTripEditArgs == {Dict(Attr(Str("k"), Str("s"))), Dict(Attr(PyInt(7), Str("s")))}

RoundTripNext ==
    \/ /\ Idle
       /\ Len(data) < MaxRoundTripRecords
       /\ \E t \in RoundTripTagArgs, a \in RoundTripAttrArgs : Set(Str("x"), t, a)
    \/ Idle /\ \E a \in RoundTripEditArgs : EditId(PyInt(0), NoneV, NoneV, a)
    \/ Idle /\ \E tag \in {TagA, TagB} : AddTag(tag)
    \/ Idle /\ SetEnforceTags(PyBool(TRUE))
    \/ Idle /\ Save
    \/ Idle /\ Open(1, NoneV, <<>>, NoFault)
    \/ Idle /\ \E kind \in {"normal", "error"} : ExitSession(kind)
    \/ Forget

RoundTripSpec == Init /\ [][RoundTripNext]_vars

----------------------------------------------------------------------------
(* Backups: databases of two names are opened at several times, under     *)
(* several retention counts, beside files already in the backup directory *)

Stems == {PlainStem, DottedStem}

\* what a file that open() did not write holds
Foreign == [kind |-> "foreign"]

\* a file of another name: "notes.txt"
Stray == << <<"notes">>, <<"txt">> >>

\* the files a backup directory may hold before the database is created:
\* a stray file, a file named as a backup but for its time, and backups
\* dated 1 and MaxTime
OldNames(st) ==
    {Stray, BackupFileNamed(st, "old"), BackupFileName(st, 1), BackupFileName(st, MaxTime)}

OldDirs(st) == UNION {[S -> {Foreign}] : S \in SUBSET OldNames(st)}

\* JSONDB_BACKUP_KEEP_COUNT: not set, or the numeral of a count
KeepArgs == {NoneV} \cup {Str(DecimalOf(k)) : k \in 0..MaxKeep}

\* the orders iterdir may list the valid backup files in when open() runs
\* at a time
OpenOrders(now) ==
    IF OpenResult = "ok" /\ Load(file).backups_enabled
    THEN Orderings(ValidBackupFiles(
             Written(backup_dir, stem, now, BackupContent(file)), stem))
    ELSE {<<>>}

BackupInit == \E st \in Stems : \E dir \in OldDirs(st) : InitOf(st, dir)

BackupNext ==
    \/ Idle /\ \E value \in {PyBool(TRUE), PyBool(FALSE)} : SetBackupsEnabled(value)
    \/ Idle /\ SetEnforceTags(PyBool(TRUE))
    \/ Idle /\ Save
    \/ Idle /\ \E now \in 1..MaxTime, env \in KeepArgs :
                  \E order \in OpenOrders(now) : Open(now, env, order, NoFault)
    \/ Idle /\ ExitSession("normal")
    \/ Forget

BackupSpec == BackupInit /\ [][BackupNext]_vars

\* a file as it is with one key of its structure missing
Without(f, key) == [k \in DOMAIN f \ {key} |-> f[k]]

\* what the backing file may be made to hold from outside the program: no
\* text, or a structure with no "tags"
BrokenFiles == {EmptyFile, Without(Dump(Empty), "tags")}

\* the backing file is overwritten from outside the program; open() reads
\* whatever text it finds
ExternalWrite(content) ==
    /\ file' = content
    /\ UNCHANGED <<tags, enforce_tags, backups_enabled, data, pc, exit_saves,
                   at_exit, stem, backup_dir, handle, peer, last_exit, last, old>>

\* the file-system failures open() may meet
Faults == {NoFault, WriteFault} \cup {UnlinkFault(n) : n \in 1..MaxFaultAt}

\* JSONDB_BACKUP_KEEP_COUNT: not set, the numeral of a count, or "-1"
FailKeepArgs == KeepArgs \cup {Str("-1")}

\* the backup directory before the database is created: any of the backups
\* dated 1 and MaxTime
FailInit ==
    \E S \in SUBSET {BackupFileName(PlainStem, 1), BackupFileName(PlainStem, MaxTime)} :
        InitOf(PlainStem, [name \in S |-> Foreign])

FailNext ==
    \/ Idle /\ \E value \in {PyBool(TRUE), PyBool(FALSE)} : SetBackupsEnabled(value)
    \/ Idle /\ Save
    \/ Idle /\ \E content \in BrokenFiles : ExternalWrite(content)
    \/ Idle /\ \E now \in 1..MaxTime, env \in FailKeepArgs, fault \in Faults :
                  \E order \in OpenOrders(now) : Open(now, env, order, fault)
    \/ Idle /\ ExitSession("normal")
    \/ Forget

FailSpec == FailInit /\ [][FailNext]_vars

----------------------------------------------------------------------------
(* Races: the client saves a new database once, then holds two sessions on *)
(* its path, which it opens, uses and leaves in any order; the file is     *)
(* written by the sessions' exits alone, and no record is removed          *)

RaceNext ==
    \/ /\ Idle
       /\ Len(data) < MaxRaceRecords
       /\ \E d \in {Str("x"), Str("y")} : Set(d, <<>>, NoAttrs)
    \/ Idle /\ AddTag(TagA)
    \/ Idle /\ pc = "handle" /\ peer.pc = "none" /\ Save
    \/ Idle /\ Open(1, NoneV, <<>>, NoFault)
    \/ Idle /\ \E kind \in ExitKinds : ExitSession(kind)
    \/ Idle /\ Switch
    \/ Forget

RaceSpec == Init /\ [][RaceNext]_vars

----------------------------------------------------------------------------
(* Properties of the record operations *)

\* the latest call was op
Did(op) == last.op = op

\* the latest call was op and returned without raising
DidOk(op) == last.op = op /\ last.result = "ok"

\* the arguments of a set() call meet everything the operation asks of them
ValidInsert(args) ==
    /\ args.data.kind = "str"
    /\ \A i \in DOMAIN args.tags : args.tags[i].kind = "str"
    /\ enforce_tags => \A i \in DOMAIN args.tags : args.tags[i] \in old.tags
    /\ \A k \in DOMAIN args.attrs :
           /\ k.kind = "str"
           /\ args.attrs[k].kind \in {"str", "int", "float", "bool"}

\* C1: an insert of valid (data, tags, attrs) succeeds, and a successful
\* insert appends exactly one record, at the index that was the length of
\* the list; get on that index returns that data, the set of those tags
\* without duplicates and those attrs; the records below it are unchanged.
C1_InsertAppendsAtEnd ==
    Did("set") =>
        /\ ValidInsert(last.args) => last.result = "ok"
        /\ last.result = "ok" =>
              LET n == Len(old.data)
                  got == AtIndexRet(PyInt(n))
              IN  /\ Len(data) = n + 1
                  /\ AtIndexResult(PyInt(n)) = "ok"
                  /\ got.data = last.args.data
                  /\ \A x \in got.tags : \E i \in DOMAIN last.args.tags : last.args.tags[i] = x
                  /\ \A i \in DOMAIN last.args.tags : last.args.tags[i] \in got.tags
                  /\ got.attrs = last.args.attrs
                  /\ \A i \in 1..n : data[i] = old.data[i]

\* C1 witness: a second record inserted with a repeated tag and an attribute
C1_Witness ==
    /\ DidOk("set")
    /\ Len(old.data) = 1
    /\ last.args.tags = <<TagA, TagA>>
    /\ DOMAIN last.args.attrs # {}
    /\ data[2].tags = {TagA}

\* C3: a call of insert, remove, edit, add_tag, add_tags, remove_tag or
\* remove_tags that raises leaves the vocabulary and the record list as
\* they were before the call.
C3_FailedCallMutatesNothing ==
    ( /\ last.op \in {"set", "unset", "edit_id", "add_tag", "add_tags", "rm_tag", "rm_tags"}
      /\ last.result # "ok" )
    => (tags = old.tags /\ data = old.data)

\* a field of edit_id left unspecified, or supplied empty
Unsupplied(x) ==
    \/ x.kind = "none"
    \/ x.kind = "str" /\ x.v = ""
    \/ x.kind = "tuple" /\ Len(x.v) = 0
    \/ x.kind = "dict" /\ DOMAIN x.v = {}

\* the position of the record a successful edit_id wrote
EditedPos == ListPos(Len(old.data), last.args.id.v)

\* C6 as stated: after a successful edit, each field left unspecified or
\* supplied empty has exactly the value it had before, whatever enforce_tags
\* and the vocabulary are, and no other record changed.
C6_UnsuppliedFieldsKept ==
    DidOk("edit_id") =>
        /\ Len(data) = Len(old.data)
        /\ \A j \in 1..Len(data) : j # EditedPos => data[j] = old.data[j]
        /\ Unsupplied(last.args.data) => data[EditedPos].data = old.data[EditedPos].data
        /\ Unsupplied(last.args.tags) => data[EditedPos].tags = old.data[EditedPos].tags
        /\ Unsupplied(last.args.attrs) => data[EditedPos].attrs = old.data[EditedPos].attrs

\* C6 amended: after a successful edit, a data or attrs field supplied with
\* a non-empty value is replaced by it, and one left unspecified or supplied
\* empty keeps its value; tags left unspecified or supplied empty keep their
\* value when enforce_tags is false, and are cut down to the previous tags
\* that are in the vocabulary when it is true; no other record changes.
C6_UnsuppliedFieldsKeptUpToVocabulary ==
    DidOk("edit_id") =>
        /\ Len(data) = Len(old.data)
        /\ \A j \in 1..Len(data) : j # EditedPos => data[j] = old.data[j]
        /\ data[EditedPos].data =
              IF Unsupplied(last.args.data)
              THEN old.data[EditedPos].data ELSE last.args.data
        /\ data[EditedPos].attrs =
              IF Unsupplied(last.args.attrs)
              THEN old.data[EditedPos].attrs ELSE last.args.attrs.v
        /\ Unsupplied(last.args.tags) =>
              data[EditedPos].tags =
                 IF enforce_tags
                 THEN {x \in old.data[EditedPos].tags : x \in tags}
                 ELSE old.data[EditedPos].tags

\* C6 witness: an edit that supplies only data, under enforce_tags, of a
\* record carrying a tag the vocabulary lacks
C6_Witness ==
    /\ DidOk("edit_id")
    /\ enforce_tags
    /\ last.args.data = Str("y")
    /\ last.args.tags = NoneV
    /\ Len(old.data) = 2
    /\ old.data[EditedPos].data = Str("x")
    /\ old.data[EditedPos].tags = {TagA, TagB}
    /\ tags = {TagA}

\* C7: under enforce_tags an insert of a string with string tags, one of
\* them outside the vocabulary, raises ValueError (InvalidTag) and appends
\* nothing; the tag check raises only under enforce_tags and only for a tag
\* outside the vocabulary.
C7_InsertRejectsForeignTag ==
    Did("set") =>
        /\ ( /\ enforce_tags
             /\ last.args.data.kind = "str"
             /\ \A i \in DOMAIN last.args.tags : last.args.tags[i].kind = "str"
             /\ \E i \in DOMAIN last.args.tags : last.args.tags[i] \notin old.tags )
           => (last.result = "ValueError" /\ data = old.data)
        /\ last.result = "ValueError" =>
              /\ enforce_tags
              /\ \E i \in DOMAIN last.args.tags : last.args.tags[i] \notin old.tags
              /\ data = old.data

\* C7 witness: an insert rejected for its second tag, the first being in the
\* vocabulary, into a list that holds a record
C7_Witness ==
    /\ Did("set")
    /\ last.result = "ValueError"
    /\ last.args.tags = <<TagA, TagB>>
    /\ old.tags = {TagA}
    /\ Len(data) = 1

\* C8: an edit of an existing record that supplies a non-empty set of
\* string tags succeeds whether or not the tags are in the vocabulary; the
\* record's tags are then the supplied tags that are in the vocabulary when
\* enforce_tags is true, and exactly the supplied tags when it is false.
C8_EditFiltersTags ==
    ( /\ Did("edit_id")
      /\ last.args.id.v \in 0..(Len(old.data) - 1)
      /\ last.args.tags.kind = "tuple"
      /\ Len(last.args.tags.v) > 0
      /\ \A i \in DOMAIN last.args.tags.v : last.args.tags.v[i].kind = "str" )
    => /\ last.result = "ok"
       /\ \A x \in data[EditedPos].tags :
             /\ \E i \in DOMAIN last.args.tags.v : last.args.tags.v[i] = x
             /\ enforce_tags => x \in tags
       /\ \A i \in DOMAIN last.args.tags.v :
             (enforce_tags => last.args.tags.v[i] \in tags)
                => last.args.tags.v[i] \in data[EditedPos].tags

\* C8 witness: under enforce_tags, tags a and b supplied while the
\* vocabulary holds only a: the record is left with a
C8_Witness ==
    /\ DidOk("edit_id")
    /\ enforce_tags
    /\ tags = {TagA}
    /\ last.args.tags = Tuple(<<TagA, TagB>>)
    /\ data[EditedPos].tags = {TagA}
    /\ old.data[EditedPos].tags = {}

\* C10: query(S) returns, in ascending order and each once, exactly the
\* indices of the records whose tags include all of S; query of no tags
\* returns every index; query changes nothing.
C10_QueryReturnsSupersets ==
    DidOk("query") =>
        LET S == {last.args.tags.v[i] : i \in DOMAIN last.args.tags.v}
            ids == last.ret
        IN  /\ \A p \in DOMAIN ids : ids[p] \in 0..(Len(data) - 1)
            /\ \A p, q \in DOMAIN ids : p < q => ids[p] < ids[q]
            /\ \A i \in 0..(Len(data) - 1) :
                  (\E p \in DOMAIN ids : ids[p] = i) <=> (S \subseteq data[i + 1].tags)
            /\ S = {} => ids = [p \in 1..Len(data) |-> p - 1]
            /\ data = old.data
            /\ tags = old.tags

\* C10 witness: a query that returns the second of two records only
C10_Witness ==
    /\ DidOk("query")
    /\ last.args.tags = Tuple(<<TagA, TagB>>)
    /\ Len(data) = 2
    /\ last.ret = <<1>>
    /\ data[1].tags = {TagA}

----------------------------------------------------------------------------
(* Properties of indices *)

\* an index argument that is an integer outside 0..len-1
OutOfRange(index) ==
    /\ index.kind = "int"
    /\ ~(0 <= index.v /\ index.v < Len(old.data))

\* C4: remove, get and edit with an integer index outside [0, len), the
\* negative ones included, raise IndexError and leave the list unchanged.
C4_OutOfRangeIndexRaises ==
    /\ (Did("unset") /\ OutOfRange(last.args.index))
          => (last.result = "IndexError" /\ data = old.data)
    /\ (Did("at_index") /\ OutOfRange(last.args.index))
          => (last.result = "IndexError" /\ data = old.data)
    /\ (Did("edit_id") /\ OutOfRange(last.args.id))
          => (last.result = "IndexError" /\ data = old.data)

\* C5: remove(i) with 0 <= i and len > i + 1 succeeds, shortens the list by
\* one, leaves the records below i where they were and moves each record
\* above i down by one, so that get(i) returns what was at i + 1.
C5_RemoveShiftsDown ==
    ( /\ Did("unset")
      /\ last.args.index.kind = "int"
      /\ 0 <= last.args.index.v
      /\ Len(old.data) > last.args.index.v + 1 )
    => LET i == last.args.index.v
       IN  /\ last.result = "ok"
           /\ Len(data) = Len(old.data) - 1
           /\ \A j \in 0..(i - 1) : data[j + 1] = old.data[j + 1]
           /\ \A j \in (i + 1)..(Len(old.data) - 1) : data[j] = old.data[j + 1]
           /\ AtIndexResult(PyInt(i)) = "ok"
           /\ AtIndexRet(PyInt(i)) = old.data[i + 2]

\* C5 witness: the middle one of three different records removed
C5_Witness ==
    /\ DidOk("unset")
    /\ last.args.index = PyInt(1)
    /\ Len(old.data) = 3
    /\ old.data[1].data = Str("x")
    /\ old.data[2].data = Str("y")
    /\ old.data[3].data = Str("z")
    /\ Len(data) = 2

----------------------------------------------------------------------------
(* Properties of what a record holds *)

\* C9: in every stored record data is a string, every tag is a string,
\* every attribute key is a string and every attribute value is a string,
\* an integer, a float or a boolean.
C9_RecordsHoldScalars ==
    \A i \in DOMAIN data :
        /\ data[i].data.kind = "str"
        /\ \A x \in data[i].tags : x.kind = "str"
        /\ \A k \in DOMAIN data[i].attrs :
              /\ k.kind = "str"
              /\ data[i].attrs[k].kind \in {"str", "int", "float", "bool"}

----------------------------------------------------------------------------
(* Properties of the session *)

\* C2: open() itself saves nothing while the body runs, and when the body
\* has ended, normally, by an early return or by an error, it has saved
\* exactly once, and the file holds the document as it was at that moment.
C2_SavedOnceOnEveryExit ==
    /\ pc = "body" => exit_saves = 0
    /\ pc = "closed" =>
          /\ exit_saves = 1
          /\ file = Dump(at_exit)
          /\ Load(file) = at_exit

\* C2 witness: a session left by an error, holding a record that the file
\* it opened did not hold
C2_Witness ==
    /\ pc = "closed"
    /\ Did("exit")
    /\ last.args.kind = "error"
    /\ Len(at_exit.data) = 1
    /\ at_exit.enforce_tags
    /\ file # EmptyFile

----------------------------------------------------------------------------
(* Properties of the vocabulary *)

\* C15: rm_tag, rm_tags, clear_tags, add_tag and add_tags leave every
\* record as it was, the records that carry a removed tag too; set() leaves
\* the vocabulary as it was.
C15_VocabularyAndRecordsApart ==
    /\ last.op \in {"rm_tag", "rm_tags", "clear_tags", "add_tag", "add_tags"}
          => data = old.data
    /\ Did("set") => tags = old.tags

\* C15 witness: a tag is removed from the vocabulary while a record carries
\* it, and the record carries it still
C15_Witness ==
    /\ DidOk("rm_tag")
    /\ last.args.tag \in old.tags
    /\ last.args.tag \notin tags
    /\ \E i \in DOMAIN data : last.args.tag \in data[i].tags

\* C16: add_tag of a tag already in the vocabulary returns and leaves the
\* vocabulary as it was; rm_tag of a tag not in it returns and leaves it as
\* it was; rm_tag of a tag in it removes that tag and no other; clear_tags
\* leaves it empty.
C16_VocabularyIsASet ==
    /\ (Did("add_tag") /\ last.args.tag \in old.tags) =>
          last.result = "ok" /\ tags = old.tags
    /\ (Did("rm_tag") /\ Hashable(last.args.tag) /\ last.args.tag \notin old.tags) =>
          last.result = "ok" /\ tags = old.tags
    /\ (Did("rm_tag") /\ last.args.tag \in old.tags) =>
          last.result = "ok" /\ tags = old.tags \ {last.args.tag}
    /\ Did("clear_tags") => last.result = "ok" /\ tags = {}

\* C16 witness: a tag that is not in the vocabulary is removed, and the
\* tag that was there is still there
C16_Witness ==
    /\ DidOk("rm_tag")
    /\ IsStr(last.args.tag)
    /\ last.args.tag \notin old.tags
    /\ Cardinality(old.tags) = 1
    /\ tags = old.tags

----------------------------------------------------------------------------
(* Properties of the search *)

\* a record matches a searched text under a mode
MatchesUnder(d, contains, case_insensitive, entry) ==
    /\ IsStr(entry.data)
    /\ LET want == IF case_insensitive THEN Lower(d.v) ELSE d.v
           have == IF case_insensitive THEN Lower(entry.data.v) ELSE entry.data.v
       IN  IF contains THEN Contains(want, have) ELSE want = have

\* C14: id(data, contains, case_insensitive) for a string returns the
\* smallest index whose record matches under the mode (equal; holding data
\* when contains; both lower-cased when case_insensitive), raises
\* ValueError exactly when no record matches, and changes nothing.
C14_FindReturnsFirstMatch ==
    (Did("id") /\ IsStr(last.args.data)) =>
        LET matching == {i \in DOMAIN data :
                            MatchesUnder(last.args.data, last.args.contains,
                                         last.args.case_insensitive, data[i])}
        IN  /\ matching = {} <=> last.result = "ValueError"
            /\ matching # {} =>
                  /\ last.result = "ok"
                  /\ last.ret.v + 1 \in matching
                  /\ \A i \in matching : last.ret.v + 1 <= i
            /\ data = old.data
            /\ tags = old.tags

----------------------------------------------------------------------------
(* Properties of format() *)

\* the format string of the latest format() call
FormattedWith == FinalFmtString(last.args.fmt_string)

\* position p of a format string holds a macro
IsMacroAt(fmt, p) == fmt[p].kind = "macro"

\* position p of a format string holds a macro, and no position left of p
\* holds a macro of that name
IsFirstOfItsMacro(fmt, p) ==
    /\ IsMacroAt(fmt, p)
    /\ \A q \in 1..(p - 1) : ~(IsMacroAt(fmt, q) /\ fmt[q].name = fmt[p].name)

\* the first occurrence in a format string of the macro at position p
FirstOfMacroAt(fmt, p) ==
    CHOOSE q \in 1..p : IsFirstOfItsMacro(fmt, q) /\ fmt[q].name = fmt[p].name

\* C19 as first stated: in every output line the first occurrence of each
\* macro is substituted and every later occurrence of that macro is left
\* as the text it is in the format string.
C19_OnlyFirstOccurrenceSubstituted ==
    DidOk("format") =>
        \A k \in DOMAIN last.ret : \A p \in DOMAIN FormattedWith :
            IsMacroAt(FormattedWith, p) =>
                IF IsFirstOfItsMacro(FormattedWith, p)
                THEN last.ret[k][p].kind = "out"
                ELSE last.ret[k][p] = FormattedWith[p]

\* C19: format() searches each macro once in the format string, and in
\* every output line substitutes every occurrence of the text that search
\* matched: the first occurrence of the macro and each later one written
\* with the same arguments; a later occurrence written with other
\* arguments is left as the text it is, and so is all text outside macros.
C19_SameTextSubstituted ==
    DidOk("format") =>
        \A k \in DOMAIN last.ret : \A p \in DOMAIN FormattedWith :
            LET fmt == FormattedWith
                line == last.ret[k]
            IN  IF IsMacroAt(fmt, p) /\ fmt[p] = fmt[FirstOfMacroAt(fmt, p)]
                THEN /\ line[p].kind = "out"
                     /\ line[p].name = fmt[p].name
                     /\ line[p].args = fmt[p].args
                ELSE line[p] = fmt[p]

\* C19 witness: two lines made from a format string that holds %id(3)
\* twice and %id() between them: both %id(3) became the id, and %id() is
\* still there
C19_Witness ==
    /\ DidOk("format")
    /\ Len(last.ret) = 2
    /\ Len(FormattedWith) = 5
    /\ FormattedWith[1] = Macro("id", "3")
    /\ FormattedWith[5] = Macro("id", "3")
    /\ last.ret[2][1] = Out("id", "3", PyInt(1))
    /\ last.ret[2][5] = Out("id", "3", PyInt(1))
    /\ last.ret[2][3] = Macro("id", "")

----------------------------------------------------------------------------
(* Properties of the saved document *)

\* C11: whatever document the operations have built, save() writes a file
\* from which open() reads the same vocabulary, the same flags and the same
\* records in the same order (data, the set of tags and attrs of each), and
\* the file a session leaves holds the document the session ended with.
C11_SaveThenOpenGivesBack ==
    /\ Did("save") => OpenResult = "ok" /\ Load(file) = Current
    /\ Did("exit") => Load(file) = at_exit

----------------------------------------------------------------------------
(* Properties of the backup rotation *)

\* the latest call was an open() that loaded backups_enabled true
OpenedWithBackups == DidOk("open") /\ backups_enabled

\* the backup file that open() wrote
NewBackup == BackupFileName(stem, last.args.now)

\* the files of the backup directory once that file was written
AfterWrite == DOMAIN old.backup_dir \cup {NewBackup}

\* the retention count that open() ran under
Retention == BackupKeepCount(last.args.env)

\* a file named as open() names the backup of this database at some time
IsTimestamped(name) == \E t \in 0..Len(Numerals) : name = BackupFileName(stem, t)

\* the time such a name embeds
EmbeddedTime(name) == CHOOSE t \in 0..Len(Numerals) : name = BackupFileName(stem, t)

\* C12: when open() has written the new backup and the timestamped backups
\* of the database outnumber the retention count, the oldest are deleted
\* until as many as the retention count are left, so that no backup left is
\* older than a deleted one; when they do not outnumber it none is deleted.
C12_RotationKeepsNewest ==
    OpenedWithBackups =>
        LET valid == {name \in AfterWrite : IsTimestamped(name)}
            left == valid \cap DOMAIN backup_dir
            gone == valid \ DOMAIN backup_dir
        IN  /\ Cardinality(valid) > Retention => Cardinality(left) = Retention
            /\ Cardinality(valid) <= Retention => gone = {}
            /\ \A g \in gone, l \in left : EmbeddedTime(l) >= EmbeddedTime(g)

C17_BackupBeforeBody ==
    /\ OpenedWithBackups =>
          /\ pc = "body"
          /\ exit_saves = 0
          /\ NewBackup \in DOMAIN backup_dir => backup_dir[NewBackup] = file
          /\ NewBackup \notin DOMAIN backup_dir => Retention < Cardinality(AfterWrite)
          /\ Cardinality(ValidBackupFiles(backup_dir, stem)) <= Retention
    /\ DidOk("open") /\ ~backups_enabled => backup_dir = old.backup_dir
    /\ last.op \notin {"open", "none"} => backup_dir = old.backup_dir

\* C17 witness: a session opened on a file that an earlier session wrote
\* and the constructed object has since moved away from; its backup holds
\* that file
C17_Witness ==
    /\ OpenedWithBackups
    /\ NewBackup \in DOMAIN backup_dir
    /\ backup_dir[NewBackup] = file
    /\ NewBackup \notin DOMAIN old.backup_dir
    /\ Load(file).enforce_tags
    /\ Cardinality(DOMAIN backup_dir) >= 2

\* C20: under a retention count of at least 1, with no backup in the
\* directory dated later than now, the backup that open() wrote is there
\* after the rotation; under a retention count of 0 the rotation deletes
\* every backup, the one just written too.
C20_NewBackupSurvives ==
    OpenedWithBackups =>
        /\ ( /\ Retention >= 1
             /\ \A name \in ValidBackupFiles(old.backup_dir, stem) :
                    TimeOf(name).v <= last.args.now )
              => NewBackup \in DOMAIN backup_dir
        /\ Retention = 0 =>
              /\ ValidBackupFiles(backup_dir, stem) = {}
              /\ NewBackup \notin DOMAIN backup_dir

----------------------------------------------------------------------------
(* Properties of two sessions on one path *)

\* the document of the session that ended latest, and of the other one
LaterDocument == IF last_exit = handle THEN at_exit ELSE peer.at_exit
EarlierDocument == IF last_exit = handle THEN peer.at_exit ELSE at_exit

\* C18: when two sessions on the same path have both ended, the file holds
\* the document of the session that ended last and nothing else: a record
\* or a vocabulary tag that only the session that ended first had is not
\* in the file.
C18_LastWriterWins ==
    (pc = "closed" /\ peer.pc = "closed") =>
        /\ file = Dump(LaterDocument)
        /\ \A e \in Range(EarlierDocument.data) :
               e \notin Range(LaterDocument.data) => e \notin Range(Load(file).data)
        /\ \A t \in EarlierDocument.tags :
               t \notin LaterDocument.tags => t \notin Load(file).tags

\* C18 witness: two sessions that were open at once have ended; the first
\* had inserted "x" and added a tag, the last had inserted "y", and the
\* file holds "y" alone and no tag
C18_Witness ==
    /\ pc = "closed"
    /\ peer.pc = "closed"
    /\ EarlierDocument.data = <<Entry(Str("x"), {}, NoAttrs)>>
    /\ EarlierDocument.tags = {TagA}
    /\ LaterDocument.data = <<Entry(Str("y"), {}, NoAttrs)>>
    /\ Load(file).data = <<Entry(Str("y"), {}, NoAttrs)>>
    /\ Load(file).tags = {}

\* C21: an open() that raises before the body of the session starts (the
\* text of the file is not JSON, a key of the structure is missing, the
\* write of the backup fails, or the rotation raises) starts no session and
\* leaves the backing file holding what it held when open() was called.
C21_FailedOpenLeavesFile ==
    (Did("open") /\ last.result # "ok") =>
        /\ file = old.file
        /\ pc # "body"

\* C21 witness: an open() has raised OSError at the second unlink of its
\* rotation, after the backup was written and one file deleted, while the
\* object at hand held a document other than the file's
C21_Witness ==
    /\ Did("open")
    /\ last.result = "OSError"
    /\ last.args.fault = UnlinkFault(2)
    /\ backup_dir # old.backup_dir
    /\ Cardinality(DOMAIN backup_dir) = Cardinality(DOMAIN old.backup_dir)
    /\ Dump(Current) # file
    /\ file = old.file

\* C22: Database(name) leaves a zero-length backing file and does not write
\* the empty document to it; the file changes only in a save (save() itself
\* or the save that ends a session), which writes the document then held;
\* and an open() of a file still of zero length raises JSONDecodeError
\* instead of starting a session on the empty document.
C22_CreateDoesNotSerialize ==
    /\ file = EmptyFile
    /\ [][file' # file =>
              /\ last'.op \in {"save", "exit"}
              /\ file' = Dump(Current')]_vars
    /\ [](Did("open") /\ old.file = EmptyFile =>
              /\ last.result = "JSONDecodeError"
              /\ pc = "handle"
              /\ file = EmptyFile)

\* C22 witness: after Database(name) and an insert, with no save, open()
\* has raised JSONDecodeError on the zero-length file
C22_Witness ==
    /\ Did("open")
    /\ last.result = "JSONDecodeError"
    /\ old.file = EmptyFile
    /\ file = EmptyFile
    /\ pc = "handle"
    /\ data = <<Entry(Str("x"), {}, NoAttrs)>>

====
